---- MODULE Spec2Model ----
(***************************************************************************)
(* Model of the Logger class of simple-progress-logger (src/logger.js,     *)
(* kept here as src/unnamed/part_001): the render tick, the console        *)
(* interception wrappers and the public update / increment / stop API.     *)
(*                                                                         *)
(* JavaScript strings are sequences of tokens (one token stands for one    *)
(* piece of text a template literal glues together); "" is <<>>.  A        *)
(* nullable value is <<>> (null / undefined) or <<x>>.  A function         *)
(* reference held by console.log / warn / error is a record [s, k]: s = 0  *)
(* is the native function of kind k, s > 0 the wrapper that session s      *)
(* installed for kind k.                                                   *)
(***************************************************************************)
EXTENDS Integers, Sequences, FiniteSets, TLC

VARIABLES console, sess, term, now, fault, last, hist

vars == <<console, sess, term, now, fault, last, hist>>

----------------------------------------------------------------------------
(* Bounds of the model *)

MaxSessions == 2      \* Logger objects constructed in one run
MaxTotal == 4         \* largest options.total
MaxBar == 2           \* largest options.barLength
MaxEffort == 2        \* console calls, stop() calls and clock advances in one run
ClockStep == 1000     \* milliseconds per clock advance
MaxWide == 22         \* largest total and barLength given to the bar and the frames alone
MaxEtaTotal == 3      \* largest total given to the ETA estimator alone
MaxPercentTotal == 40 \* largest total given to the percentage alone
Epoch == 100 * ClockStep   \* Date.now() when the run starts
MaxValue == MaxTotal + 1   \* largest progress value (may exceed total)

(* Program constants *)

DefaultThrottle == 50

Null == <<>>
Some(x) == <<x>>

FullBlock == "u2588"
LightShade == "u2591"
WarnGlyph == "u26A0uFE0F  "
ErrorGlyph == "u274C "
CR == "\r"
LF == "\n"

Kinds == {"log", "warn", "error"}
Native(k) == [s |-> 0, k |-> k]
WrapperOf(s, k) == [s |-> s, k |-> k]

----------------------------------------------------------------------------
(* Strings *)

RECURSIVE Repeat(_, _)
Repeat(c, n) == IF n <= 0 THEN <<>> ELSE <<c>> \o Repeat(c, n - 1)

RECURSIVE Join(_)
Join(args) ==
    IF Len(args) = 0 THEN <<>>
    ELSE IF Len(args) = 1 THEN args[1]
    ELSE args[1] \o <<" ">> \o Join(Tail(args))

Contains(text, sub) ==
    \E i \in 1..(Len(text) - Len(sub) + 1) :
        SubSeq(text, i, i + Len(sub) - 1) = sub

Truthy(str) == str # <<>>

----------------------------------------------------------------------------
(* The terminal: the number of lines completed so far, the last of them,   *)
(* the line the cursor is on and the cursor's column                       *)

NewLine(t) ==
    [count |-> t.count + 1, lines |-> <<t.cur>>, cur |-> <<>>, col |-> 0]

ClearLine(t) == [t EXCEPT !.cur = <<>>]
CursorTo0(t) == [t EXCEPT !.col = 0]

PutAt(cur, col, tok) ==
    IF col < Len(cur) THEN [cur EXCEPT ![col + 1] = tok]
    ELSE cur \o Repeat(" ", col - Len(cur)) \o <<tok>>

RECURSIVE StdoutWrite(_, _)
StdoutWrite(t, text) ==
    IF text = <<>> THEN t
    ELSE LET tok == Head(text)
             t1 == IF tok = CR THEN [t EXCEPT !.col = 0]
                   ELSE IF tok = LF
                        THEN NewLine(t)
                        ELSE [t EXCEPT !.cur = PutAt(t.cur, t.col, tok),
                                       !.col = t.col + 1]
         IN StdoutWrite(t1, Tail(text))

----------------------------------------------------------------------------
(* Numbers *)

Floor(num, den) == num \div den
Round(num, den) == (2 * num + den) \div (2 * den)
JsRem(a, b) == IF a >= 0 THEN a % b ELSE 0 - ((0 - a) % b)

ToFixed(num, den, digits) ==
    LET scale == IF digits = 1 THEN 10 ELSE 100
        n == Round(num * scale, den)
        frac == n % scale
    IN <<ToString(n \div scale), ".">>
       \o (IF digits = 2 /\ frac < 10 THEN <<"0">> ELSE <<>>)
       \o <<ToString(frac)>>

----------------------------------------------------------------------------
(* IEEE 754 double arithmetic on the quotients the code forms from small   *)
(* non-negative integers.  A double is [m, s]: m is the significand as a   *)
(* sequence of bits, most significant first (<<>> is zero), and the value  *)
(* is m / 2^s.  Every operation rounds to 53 significant bits, ties to     *)
(* even, as the JavaScript Number operations do.                           *)

Significand == 53
Limb == 18

Front(seq) == SubSeq(seq, 1, Len(seq) - 1)

RECURSIVE ToBits(_)
ToBits(n) == IF n = 0 THEN <<>> ELSE Append(ToBits(n \div 2), n % 2)

(* n written with exactly width bits *)
FixedBits(n, width) == [i \in 1..width |-> (n \div 2^(width - i)) % 2]

RECURSIVE ToInt(_)
ToInt(bits) == IF bits = <<>> THEN 0 ELSE 2 * ToInt(Front(bits)) + bits[Len(bits)]

(* bits without its leading zeros *)
Normalize(bits) ==
    IF \A i \in 1..Len(bits) : bits[i] = 0 THEN <<>>
    ELSE LET first == CHOOSE i \in 1..Len(bits) :
                          bits[i] = 1 /\ \A j \in 1..(i - 1) : bits[j] = 0
         IN SubSeq(bits, first, Len(bits))

(* bits + 1 *)
Inc(bits) ==
    IF \A i \in 1..Len(bits) : bits[i] = 1
    THEN <<1>> \o [i \in 1..Len(bits) |-> 0]
    ELSE LET z == CHOOSE i \in 1..Len(bits) :
                      bits[i] = 0 /\ \A j \in (i + 1)..Len(bits) : bits[j] = 1
         IN [i \in 1..Len(bits) |-> IF i < z THEN bits[i] ELSE IF i = z THEN 1 ELSE 0]

(* bits rounded to its first keep bits; sticky: a non-zero part lies below *)
RoundNearestEven(bits, keep, sticky) ==
    LET kept == SubSeq(bits, 1, keep)
        dropped == SubSeq(bits, keep + 1, Len(bits))
        above == sticky \/ \E i \in 2..Len(dropped) : dropped[i] = 1
        up == dropped[1] = 1 /\ (above \/ kept[keep] = 1)
    IN IF up THEN Inc(kept) ELSE kept

(* 2^k modulo t, for k up to 2 * 27 *)
PowMod(k, t) == ((2^(k \div 2) % t) * (2^(k - k \div 2) % t)) % t

(* the first n bits after the binary point of r / t (0 <= r < t) and the   *)
(* remainder left after them                                               *)
DivStep(r, t, n) ==
    [bits |-> [i \in 1..n |-> (2 * ((r * PowMod(i - 1, t)) % t)) \div t],
     rem |-> (r * PowMod(n, t)) % t]

(* zero bits that follow the binary point of r / t (0 < r < t) *)
RECURSIVE LeadingZeros(_, _)
LeadingZeros(r, t) == IF 2 * r >= t THEN 0 ELSE 1 + LeadingZeros(2 * r, t)

(* the double v / t *)
Div53(v, t) ==
    IF v = 0 THEN [m |-> <<>>, s |-> 0]
    ELSE LET int == ToBits(v \div t)
             z == IF int = <<>> THEN LeadingZeros(v, t) ELSE 0
             n == Significand - Len(int)
             d == DivStep((v % t) * 2^z, t, n + 1)
         IN [m |-> RoundNearestEven(int \o d.bits, Significand, d.rem # 0),
             s |-> z + n]

(* the k-th limb of bits, counted from the least significant end *)
LimbOf(bits, k) ==
    LET hi == Len(bits) - Limb * k
        lo == IF hi - Limb + 1 < 1 THEN 1 ELSE hi - Limb + 1
    IN IF hi < 1 THEN 0 ELSE ToInt(SubSeq(bits, lo, hi))

(* bits * b, for bits of at most 3 limbs and b below 2^10 *)
MulSmall(bits, b) ==
    LET x0 == LimbOf(bits, 0) * b
        x1 == LimbOf(bits, 1) * b + x0 \div 2^Limb
        x2 == LimbOf(bits, 2) * b + x1 \div 2^Limb
    IN Normalize(ToBits(x2) \o FixedBits(x1 % 2^Limb, Limb) \o FixedBits(x0 % 2^Limb, Limb))

(* the double x * b, b a small positive integer *)
Mul53(x, b) ==
    IF x.m = <<>> \/ b = 0 THEN [m |-> <<>>, s |-> 0]
    ELSE LET p == MulSmall(x.m, b)
         IN IF Len(p) <= Significand THEN [m |-> p, s |-> x.s]
            ELSE [m |-> RoundNearestEven(p, Significand, FALSE),
                  s |-> x.s - (Len(p) - Significand)]

(* Math.floor(x) and Math.round(x) of a double x >= 0 *)
MathFloor(x) ==
    IF Len(x.m) <= x.s THEN 0 ELSE ToInt(SubSeq(x.m, 1, Len(x.m) - x.s))

MathRound(x) ==
    MathFloor(x)
    + (IF x.s > 0 /\ Len(x.m) >= x.s THEN x.m[Len(x.m) - x.s + 1] ELSE 0)

----------------------------------------------------------------------------
(* The values, totals and bar lengths the bar, the percentage and the ETA  *)
(* estimator are given on their own                                        *)

EtaElapsed ==
    {0, 500, 1000, 59499, 59500, 60000, 3599499, 3599500, 3600000, 7261000}

WideInputs ==
    {in \in {[total |-> t, barLength |-> b, value |-> v, elapsed |-> 0] :
                t \in 1..MaxWide, b \in 1..MaxWide, v \in 0..MaxWide} :
        in.value <= in.total}

PercentInputs ==
    {in \in {[total |-> t, barLength |-> 1, value |-> v, elapsed |-> 0] :
                t \in 1..MaxPercentTotal, v \in 0..MaxPercentTotal} :
        in.value <= in.total}

EtaInputs ==
    {[total |-> t, barLength |-> 1, value |-> v, elapsed |-> e] :
        t \in 1..MaxEtaTotal, v \in 0..(MaxEtaTotal + 1), e \in EtaElapsed}

AloneInputs == WideInputs \cup PercentInputs \cup EtaInputs

(* The quotients of every value, total and barLength that occur, worked    *)
(* out once                                                                *)
BarCases ==
    {<<in.value, in.total, in.barLength>> : in \in AloneInputs}
    \cup {<<v, t, b>> : v \in 0..MaxValue, t \in 1..MaxTotal, b \in 1..MaxBar}

FilledLengths == [c \in BarCases |-> MathFloor(Mul53(Div53(c[1], c[2]), c[3]))]

PercentCases == {<<c[1], c[2]>> : c \in BarCases}

Percentages == [c \in PercentCases |-> MathRound(Mul53(Div53(c[1], c[2]), 100))]

----------------------------------------------------------------------------
(* Frames, bar, ETA *)

Frame(i, barLength, full, empty) ==
    [j \in 1..barLength |-> IF i = j - 1 THEN full ELSE empty]

BuildFramesBothEnds(barLength, full, empty) ==
    [i \in 1..barLength |-> Frame(i - 1, barLength, full, empty)]
    \o [n \in 1..(barLength - 1) |-> Frame(barLength - 1 - n, barLength, full, empty)]

BuildFrames(barLength, full, empty) ==
    [i \in 1..barLength |-> Frame(i - 1, barLength, full, empty)]
    \o [n \in 1..(IF barLength > 2 THEN barLength - 2 ELSE 0) |->
            Frame(barLength - 1 - n, barLength, full, empty)]

FilledLength(o) ==
    LET c == <<o.value, o.total[1], o.barLength>>
    IN IF c \in BarCases THEN FilledLengths[c]
       ELSE MathFloor(Mul53(Div53(o.value, o.total[1]), o.barLength))

BarThrows(o) == o.barLength - FilledLength(o) < 0

getProgressBar(o) ==
    Repeat(FullBlock, FilledLength(o))
    \o Repeat(LightShade, o.barLength - FilledLength(o))

NumericETARoundsHours(o, t) ==
    LET elapsed == t - o.startTime
        num == elapsed * o.total[1] - elapsed * o.value
        totalSeconds == Round(num, o.value * 1000)
        hours == Round(totalSeconds, 3600)
        minutes == Floor(JsRem(totalSeconds, 3600), 60)
        seconds == JsRem(totalSeconds, 60)
    IN IF hours > 0
       THEN <<ToString(hours), "h ", ToString(minutes), "m ", ToString(seconds), "s">>
       ELSE IF minutes > 0
            THEN <<ToString(minutes), "m ", ToString(seconds), "s">>
            ELSE <<ToString(seconds), "s">>

(* calculateETA past its value === 0 guard *)
NumericETA(o, t) ==
    LET elapsed == t - o.startTime
        num == elapsed * o.total[1] - elapsed * o.value
        totalSeconds == Round(num, o.value * 1000)
        hours == Floor(totalSeconds, 3600)
        minutes == Floor(JsRem(totalSeconds, 3600), 60)
        seconds == JsRem(totalSeconds, 60)
    IN IF hours > 0
       THEN <<ToString(hours), "h ", ToString(minutes), "m ", ToString(seconds), "s">>
       ELSE IF minutes > 0
            THEN <<ToString(minutes), "m ", ToString(seconds), "s">>
            ELSE <<ToString(seconds), "s">>

(* without the guard elapsed / 0 is Infinity, or NaN when elapsed is 0 *)
calculateETAUnguarded(o, t) ==
    IF o.value = 0
    THEN IF t > o.startTime THEN <<"Infinity", "h ", "NaN", "m ", "NaN", "s">>
         ELSE <<"NaN", "s">>
    ELSE NumericETA(o, t)

calculateETA(o, t) ==
    IF o.value = 0 THEN <<"Calculating...">> ELSE NumericETA(o, t)

Percentage(o) ==
    LET c == <<o.value, o.total[1]>>
    IN IF c \in PercentCases THEN Percentages[c]
       ELSE MathRound(Mul53(Div53(o.value, o.total[1]), 100))

----------------------------------------------------------------------------
(* Inputs *)

Messages == {<<>>, <<"D">>}
ArgLists == {<< <<"x">>, <<"y">> >>}
Values == {Null, Some(0), Some(MaxValue)}

DefaultFlags ==
    [showProgressBar |-> TRUE, showLoadingAnimation |-> TRUE, showEta |-> TRUE,
     showAvgTimePerItem |-> FALSE, displayMessageFirst |-> FALSE,
     fullCharacter |-> FullBlock, emptyCharacter |-> LightShade]

Option(m, t, b, f) == [message |-> m, total |-> t, barLength |-> b, flags |-> f]

NoBar == [DefaultFlags EXCEPT !.showProgressBar = FALSE, !.showEta = FALSE]
Custom == [DefaultFlags EXCEPT !.showLoadingAnimation = FALSE,
                               !.showAvgTimePerItem = TRUE, !.displayMessageFirst = TRUE,
                               !.fullCharacter = "#", !.emptyCharacter = "-"]

AllOptions ==
    {Option(<<"A">>, Null, MaxBar, DefaultFlags),
     Option(<<"A">>, Null, 1, Custom),
     Option(<<"A">>, Some(MaxTotal), MaxBar, DefaultFlags),
     Option(<<"A">>, Some(MaxTotal - 1), MaxBar, Custom),
     Option(<<"A">>, Some(MaxTotal - 1), 1, NoBar)}

BasicOptions == {Option(<<"A">>, Some(1), 1, DefaultFlags)}

----------------------------------------------------------------------------
(* The Logger object *)

Logger(options, t) ==
    [message |-> options.message,
     value |-> 0,
     total |-> options.total,
     indeterminate |-> options.total = Null,
     showProgressBar |-> options.flags.showProgressBar,
     showLoadingAnimation |-> options.flags.showLoadingAnimation,
     showEta |-> options.flags.showEta,
     barLength |-> options.barLength,
     updateThrottle |-> DefaultThrottle,
     showAvgTimePerItem |-> options.flags.showAvgTimePerItem,
     fullCharacter |-> options.flags.fullCharacter,
     emptyCharacter |-> options.flags.emptyCharacter,
     displayMessageFirst |-> options.flags.displayMessageFirst,
     timer |-> Null,
     startTime |-> t,
     isActive |-> FALSE,
     originalConsoleLog |-> Null,
     originalConsoleWarn |-> Null,
     originalConsoleError |-> Null,
     outputBuffer |-> <<>>,
     progressLine |-> <<>>,
     frameIndex |-> 0,
     lastProgressUpdate |-> 0,
     frames |-> BuildFrames(options.barLength, options.flags.fullCharacter,
                            options.flags.emptyCharacter)]

startAnimation(o) ==
    [o EXCEPT !.timer = Some("interval")]

updateProgress(o, t) ==
    IF ~o.isActive THEN o
    ELSE IF t - o.lastProgressUpdate < o.updateThrottle THEN o
    ELSE [o EXCEPT !.lastProgressUpdate = t]

interceptConsole(o, c) ==
    [o EXCEPT !.originalConsoleLog = Some(c.log),
              !.originalConsoleWarn = Some(c.warn),
              !.originalConsoleError = Some(c.error)]

Wrappers(s) == [k \in Kinds |-> WrapperOf(s, k)]

restoreConsoleSwapped(o, c) ==
    IF o.originalConsoleLog # Null
    THEN [log |-> o.originalConsoleLog[1],
          warn |-> o.originalConsoleLog[1],
          error |-> o.originalConsoleError[1]]
    ELSE c

restoreConsole(o, c) ==
    IF o.originalConsoleLog # Null
    THEN [log |-> o.originalConsoleLog[1],
          warn |-> o.originalConsoleWarn[1],
          error |-> o.originalConsoleError[1]]
    ELSE c

displayProgress(o, t) == StdoutWrite(CursorTo0(ClearLine(t)), o.progressLine)

LoadingAnimation(o) ==
    IF o.showLoadingAnimation THEN o.frames[o.frameIndex + 1] \o <<" ">> ELSE <<>>

TickThrows(o) == ~o.indeterminate /\ o.showProgressBar /\ BarThrows(o)

TickLine(o, t) ==
    IF o.indeterminate
    THEN <<CR>> \o LoadingAnimation(o) \o o.message
    ELSE LET percentage == Percentage(o)
             progressBar == IF o.showProgressBar THEN getProgressBar(o) \o <<" ">> ELSE <<>>
             etaText == IF o.showEta
                        THEN <<" | ETA: ">> \o calculateETA(o, t) \o <<" ">>
                        ELSE <<>>
         IN <<CR>>
            \o (IF o.displayMessageFirst THEN o.message \o <<" | ">> ELSE <<>>)
            \o (IF o.showProgressBar THEN progressBar ELSE LoadingAnimation(o))
            \o <<ToString(percentage), "% | ", ToString(o.value), "/", ToString(o.total[1])>>
            \o etaText
            \o (IF ~o.displayMessageFirst THEN <<" | ">> \o o.message ELSE <<>>)

Glyph(k) == IF k = "warn" THEN <<WarnGlyph>> ELSE IF k = "error" THEN <<ErrorGlyph>> ELSE <<>>

WrapperMessage(k, args) == Glyph(k) \o Join(args)

WrapperLine(k, args) == <<CR>> \o WrapperMessage(k, args) \o <<LF>>

StopSummary(o, t) ==
    LET elapsed == ToFixed(t - o.startTime, 1000, 1)
        avgTimePerItemSeconds ==
            IF o.value > 0 THEN ToFixed(t - o.startTime, o.value * 1000, 2)
            ELSE ToFixed(0, 1, 2)
    IN o.message \o <<" | ">> \o elapsed \o <<"s total">>
       \o (IF o.showAvgTimePerItem
           THEN <<" | ">> \o avgTimePerItemSeconds \o <<"s avg per item">>
           ELSE <<>>)

clearIntervalForgotten(o) == o

clearInterval(o) == [o EXCEPT !.timer = Some("cleared")]

stopAnimationNoTerminator(t, message) ==
    StdoutWrite(CursorTo0(ClearLine(t)), message)

stopAnimation(t, message) ==
    StdoutWrite(CursorTo0(ClearLine(t)), message \o <<LF>>)

----------------------------------------------------------------------------
(* State *)

Running == fault = "none"

(* calls made so far that wrote a line, buffered a message without writing  *)
(* it, or advanced the clock                                               *)
RECURSIVE Unwritten(_)
Unwritten(objs) ==
    IF objs = <<>> THEN 0
    ELSE (IF Head(objs).isActive THEN 0 ELSE Len(Head(objs).outputBuffer))
         + Unwritten(Tail(objs))

Effort(objs, t, clock) == Unwritten(objs) + t.count + (clock - Epoch) \div ClockStep
Objects == DOMAIN sess
NoOp == [op |-> "none", s |-> 0, k |-> "", arg |-> <<>>, val |-> Null, ret |-> 0]
Op(op, s, k, arg, val, ret) ==
    [op |-> op, s |-> s, k |-> k, arg |-> arg, val |-> val, ret |-> ret]

Init ==
    /\ console = [k \in Kinds |-> Native(k)]
    /\ sess = <<>>
    /\ term = [count |-> 0, lines |-> <<>>, cur |-> <<>>, col |-> 0]
    /\ now = Epoch
    /\ fault = "none"
    /\ last = NoOp
    /\ hist = <<>>

(* the object new Logger(options) leaves behind *)
Constructed(options, t, c) ==
    LET o0 == Logger(options, t)
        o1 == IF ~o0.indeterminate THEN [o0 EXCEPT !.isActive = TRUE] ELSE o0
        o2 == interceptConsole(startAnimation(o1), c)
    IN IF ~o2.indeterminate THEN updateProgress(o2, t) ELSE o2

(* new Logger(options) *)
Construct(options, limit) ==
    LET s == Len(sess) + 1
    IN /\ Running
       /\ Len(sess) < limit
       /\ sess' = Append(sess, Constructed(options, now, console))
       /\ console' = Wrappers(s)
       /\ hist' = Append(hist, [pre |-> console,
                                alone |-> \A r \in DOMAIN hist : hist[r].stops > 0,
                                stops |-> 0])
       /\ last' = Op("new", s, "", options.message, options.total, s)
       /\ UNCHANGED <<term, now, fault>>

(* one firing of the setInterval callback of startAnimation *)
Tick(s) ==
    LET o == sess[s] IN
    /\ Running
    /\ o.timer = Some("interval")
    /\ last' = Op("tick", s, "", <<>>, Null, 0)
    /\ IF TickThrows(o)
       THEN /\ fault' = "RangeError"
            /\ UNCHANGED <<console, sess, term, now, hist>>
       ELSE LET o1 == [o EXCEPT !.progressLine = TickLine(o, now)]
            IN /\ term' = displayProgress(o1, term)
               /\ sess' = [sess EXCEPT ![s] =
                              [o1 EXCEPT !.frameIndex = (o.frameIndex + 1) % Len(o.frames)]]
               /\ UNCHANGED <<console, now, fault, hist>>

(* the wrapper session s installed for kind k, called with args *)
Wrapper(s, k, args, effort) ==
    LET o == sess[s]
        o1 == [o EXCEPT !.outputBuffer = Append(@, WrapperMessage(k, args)),
                        !.progressLine = WrapperLine(k, args)]
    IN /\ sess' = [sess EXCEPT ![s] = o1]
       /\ term' = IF o1.isActive THEN displayProgress(o1, term) ELSE term
       /\ Effort(sess', term', now) <= effort
       /\ last' = Op("wrapper", s, k, args, Null, 0)
       /\ UNCHANGED <<console, now, fault, hist>>

(* the native console function of kind k *)
NativeCall(k, args, effort) ==
    /\ term' = StdoutWrite(term, Join(args) \o <<LF>>)
    /\ Effort(sess, term', now) <= effort
    /\ last' = Op("native", 0, k, args, Null, 0)
    /\ UNCHANGED <<console, sess, now, fault, hist>>

(* console.log(...args), console.warn(...args), console.error(...args) *)
CallConsole(k, args, effort) ==
    /\ Running
    /\ IF console[k].s = 0
       THEN NativeCall(console[k].k, args, effort)
       ELSE Wrapper(console[k].s, console[k].k, args, effort)

CountsAlways(o) == TRUE

Counts(o) == ~o.indeterminate /\ o.isActive

Increment(s, cap) ==
    LET o == sess[s] IN
    /\ Running
    /\ o.value < cap
    /\ sess' = [sess EXCEPT ![s] =
                   IF Counts(o)
                   THEN updateProgress([o EXCEPT !.value = o.value + 1], now)
                   ELSE o]
    /\ last' = Op("increment", s, "", <<>>, Null, s)
    /\ UNCHANGED <<console, term, now, fault, hist>>

SetValueIfTruthy(o, value) ==
    IF value # Null /\ value[1] # 0 THEN [o EXCEPT !.value = value[1]] ELSE o

SetValue(o, value) ==
    IF value # Null THEN [o EXCEPT !.value = value[1]] ELSE o

Update(s, message, value) ==
    LET o == sess[s]
        o1 == SetValue(o, value)
        o2 == IF Truthy(message) THEN [o1 EXCEPT !.message = message] ELSE o1
        o3 == IF ~o2.indeterminate /\ o2.isActive THEN updateProgress(o2, now) ELSE o2
    IN /\ Running
       /\ sess' = [sess EXCEPT ![s] = o3]
       /\ last' = Op("update", s, "", message, value, s)
       /\ UNCHANGED <<console, term, now, fault, hist>>

Stop(s, endMessage, effort) ==
    LET o == sess[s]
        o1 == IF ~o.indeterminate /\ Truthy(endMessage)
              THEN [o EXCEPT !.message = endMessage] ELSE o
        o2 == clearInterval(o1)
    IN /\ Running
       /\ term' = IF o.indeterminate THEN stopAnimation(term, <<>>)
                  ELSE stopAnimation(term, StopSummary(o1, now))
       /\ Effort(sess, term', now) <= effort
       /\ sess' = [sess EXCEPT ![s] = o2]
       /\ console' = restoreConsole(o2, console)
       /\ hist' = [hist EXCEPT ![s].stops = @ + 1]
       /\ last' = Op("stop", s, "", endMessage, Null, 0)
       /\ UNCHANGED <<now, fault>>

(* wall-clock time passes *)
Advance(effort) ==
    /\ Running
    /\ Len(sess) > 0
    /\ now' = now + ClockStep
    /\ Effort(sess, term, now') <= effort
    /\ last' = Op("advance", 0, "", <<>>, Null, 0)
    /\ UNCHANGED <<console, sess, term, fault, hist>>

Calls(kinds, messages, values, cap, effort) ==
    \/ \E s \in Objects : Tick(s)
    \/ \E k \in kinds, args \in ArgLists : CallConsole(k, args, effort)
    \/ \E s \in Objects : Increment(s, cap)
    \/ \E s \in Objects, m \in messages, v \in values : Update(s, m, v)
    \/ \E s \in Objects, m \in messages : Stop(s, m, effort)

Next ==
    \/ \E options \in AllOptions : Construct(options, 1)
    \/ Calls(Kinds, Messages, Values, MaxValue, MaxEffort)
    \/ Advance(MaxEffort)

Spec == Init /\ [][Next]_vars

NextMulti ==
    \/ \E options \in BasicOptions : Construct(options, MaxSessions)
    \/ Calls({"log"}, {<<>>}, {Some(1)}, 1, MaxEffort)

SpecMulti == Init /\ [][NextMulti]_vars

----------------------------------------------------------------------------
(* The bar, the frames, the percentage and the ETA estimator on their own: *)
(* one session in the state new Logger(options) and update('', value)      *)
(* leave it in, at a chosen time after its construction, and the methods   *)
(* and the tick applied to it.                                             *)

InitAlone ==
    \E in \in AloneInputs :
        LET natives == [k \in Kinds |-> Native(k)]
            o == Constructed(Option(<<"A">>, Some(in.total), in.barLength, DefaultFlags),
                             Epoch, natives)
        IN /\ console = Wrappers(1)
           /\ sess = <<SetValue(o, Some(in.value))>>
           /\ term = [count |-> 0, lines |-> <<>>, cur |-> <<>>, col |-> 0]
           /\ now = Epoch + in.elapsed
           /\ fault = "none"
           /\ last = Op("update", 1, "", <<>>, Some(in.value), 1)
           /\ hist = <<[pre |-> natives, alone |-> TRUE, stops |-> 0]>>

(* this.getProgressBar() *)
CallGetProgressBar(s) ==
    LET o == sess[s] IN
    /\ Running
    /\ last.op = "update"
    /\ IF BarThrows(o)
       THEN /\ fault' = "RangeError"
            /\ last' = Op("getProgressBar", s, "", <<>>, Null, 0)
       ELSE /\ fault' = fault
            /\ last' = Op("getProgressBar", s, "", getProgressBar(o), Null, 0)
    /\ UNCHANGED <<console, sess, term, now, hist>>

(* this.calculateETA() *)
CallCalculateETA(s) ==
    /\ Running
    /\ last.op = "update"
    /\ last' = Op("calculateETA", s, "", calculateETA(sess[s], now), Null, 0)
    /\ UNCHANGED <<console, sess, term, now, fault, hist>>

(* the first firing of the interval callback *)
FirstTick(s) == last.op = "update" /\ Tick(s)

NextAlone ==
    \/ \E s \in Objects : CallGetProgressBar(s)
    \/ \E s \in Objects : CallCalculateETA(s)
    \/ \E s \in Objects : FirstTick(s)

SpecAlone == InitAlone /\ [][NextAlone]_vars

----------------------------------------------------------------------------
(* Properties *)

LastLine == term.lines[Len(term.lines)]
Stopped(s) == hist[s].stops > 0
Shown(value, total) ==
    <<ToString(Round(100 * value, total)), "% | ", ToString(value), "/", ToString(total)>>

(* C1: a session constructed while no other session is un-stopped: after   *)
(* any calls followed by stop(), console.log, console.warn, console.error  *)
(* are the references they were immediately before the construction.       *)
C1_StopRestoresOriginals ==
    (last.op = "stop" /\ hist[last.s].alone) => console = hist[last.s].pre

C1_Witness ==
    /\ last.op = "stop"
    /\ hist[last.s].alone
    /\ hist[last.s].stops = 1
    /\ sess[last.s].value > 0
    /\ Len(sess[last.s].outputBuffer) > 0
    /\ console = hist[last.s].pre

(* C2: update(message, value) sets value to every supplied non-null value, *)
(* 0 included, leaves value as it was when the value is omitted or null,   *)
(* and returns the session it was called on.                               *)
C2_UpdateSetsValue ==
    [][last'.op = "update" =>
          /\ last'.ret = last'.s
          /\ last'.val # Null => sess'[last'.s].value = last'.val[1]
          /\ last'.val = Null => sess'[last'.s].value = sess[last'.s].value]_vars

C2_Witness ==
    /\ last.op = "update"
    /\ last.val = Some(0)
    /\ sess[last.s].value = 0
    /\ Contains(term.cur, <<ToString(MaxValue), "/">>)

(* C3: increment() adds exactly 1 to value on a determinate session,       *)
(* changes no field of an indeterminate session, and returns the session   *)
(* it was called on.                                                       *)
C3_Increment ==
    [][last'.op = "increment" =>
          /\ last'.ret = last'.s
          /\ ~sess[last'.s].indeterminate =>
                sess'[last'.s].value = sess[last'.s].value + 1
          /\ sess[last'.s].indeterminate => sess'[last'.s] = sess[last'.s]]_vars

C3_Witness ==
    /\ last.op = "increment"
    /\ ~sess[last.s].indeterminate
    /\ Stopped(last.s)
    /\ sess[last.s].value = MaxValue

(* C4: in a determinate session whose value is above total every tick      *)
(* completes without an error and writes a line.                           *)
C4_TickToleratesOvershoot ==
    (/\ last.op = "tick"
     /\ ~sess[last.s].indeterminate
     /\ sess[last.s].value > sess[last.s].total[1])
    => /\ fault = "none"
       /\ term.cur = Tail(sess[last.s].progressLine)
       /\ term.cur # <<>>

(* C5: stop(endMessage) with a non-empty endMessage writes, in both modes, *)
(* a final line that contains endMessage; stop() without an argument on an *)
(* indeterminate session writes only an empty line and raises no error.    *)
C5_StopWritesEndMessage ==
    last.op = "stop" =>
        /\ fault = "none"
        /\ last.arg # <<>> => Contains(LastLine, last.arg)
        /\ (last.arg = <<>> /\ sess[last.s].indeterminate) => LastLine = <<>>

(* C6: a second or later stop() on a session leaves console.log,           *)
(* console.warn and console.error as they were just before that call.      *)
C6_SecondStopRestoresNothing ==
    [][(last'.op = "stop" /\ Stopped(last'.s)) => console' = console]_vars

(* C7 as stated: stop() on an already stopped session raises no error and  *)
(* writes no additional line.                                              *)
C7_SecondStopWritesNothing ==
    [][(last'.op = "stop" /\ Stopped(last'.s)) =>
          /\ fault' = "none"
          /\ term'.count = term.count]_vars

(* C7 amended: stop() on an already stopped session raises no error and    *)
(* writes exactly one more terminated line: the empty line in              *)
(* indeterminate mode, the summary line (message, elapsed seconds) in      *)
(* determinate mode; the cursor is left on an empty line.                  *)
C7_SecondStopWritesOneLine ==
    [][(last'.op = "stop" /\ Stopped(last'.s)) =>
          /\ fault' = "none"
          /\ term'.count = term.count + 1
          /\ term'.cur = <<>>
          /\ LET line == term'.lines[Len(term'.lines)]
                 o == sess'[last'.s]
             IN IF o.indeterminate THEN line = <<>>
                ELSE /\ SubSeq(line, 1, Len(o.message) + 1) = o.message \o <<" | ">>
                     /\ Contains(line, <<"s total">>)]_vars

C7_Witness ==
    /\ last.op = "stop"
    /\ hist[last.s].stops = 2
    /\ ~sess[last.s].indeterminate
    /\ term.count = 2
    /\ Contains(LastLine, <<"D", " | ">>)

(* C8: while a determinate session is active an intercepted log / warn /   *)
(* error call writes its arguments joined into one line (warn and error    *)
(* prefixed by their glyph) with a line terminator and then, in the same   *)
(* call, re-renders the live progress line beneath it.                     *)
C8_WrapperRerendersLiveLine ==
    (/\ last.op = "wrapper"
     /\ ~sess[last.s].indeterminate
     /\ ~Stopped(last.s))
    => /\ term.count > 0
       /\ LastLine = (IF last.k = "warn" THEN <<WarnGlyph>>
                      ELSE IF last.k = "error" THEN <<ErrorGlyph>> ELSE <<>>)
                     \o Join(last.arg)
       /\ Contains(term.cur, Shown(sess[last.s].value, sess[last.s].total[1]))

(* C9: between construction and stop(), in either mode, the text of each   *)
(* intercepted log / warn / error call is written to the terminal as a     *)
(* completed line.                                                         *)
C9_WrapperWritesLine ==
    (last.op = "wrapper" /\ ~Stopped(last.s))
    => /\ term.count > 0
       /\ LastLine = (IF last.k = "warn" THEN <<WarnGlyph>>
                      ELSE IF last.k = "error" THEN <<ErrorGlyph>> ELSE <<>>)
                     \o Join(last.arg)

(* C10: the line a tick of a determinate session writes shows the          *)
(* percentage round(100 * value / total) and value/total of the value set  *)
(* most recently before the tick, and of no other value.                   *)
C10_TickRendersLatestValue ==
    [][(last'.op = "tick" /\ fault' = "none" /\ ~sess[last'.s].indeterminate) =>
          LET o == sess[last'.s]
          IN /\ Contains(term'.cur, Shown(o.value, o.total[1]))
             /\ \A v \in 0..MaxValue :
                   v # o.value => ~Contains(term'.cur, <<ToString(v), "/">>)]_vars

(* the bar segment of a line a determinate tick wrote for session o *)
RenderedBar(o, line) ==
    LET start == IF o.displayMessageFirst THEN Len(o.message) + 2 ELSE 1
    IN SubSeq(line, start, start + o.barLength - 1)

(* C11: the determinate bar a tick renders is made of the session's        *)
(* configured fullCharacter and emptyCharacter: some number of             *)
(* fullCharacter followed by emptyCharacter only.                          *)
C11_BarUsesConfiguredCharacters ==
    (/\ last.op = "tick"
     /\ fault = "none"
     /\ ~sess[last.s].indeterminate
     /\ sess[last.s].showProgressBar)
    => LET o == sess[last.s]
       IN \E n \in 0..o.barLength :
              RenderedBar(o, term.cur)
                  = Repeat(o.fullCharacter, n) \o Repeat(o.emptyCharacter, o.barLength - n)

(* C12: for total >= 1, 0 <= value <= total and barLength >= 1 the bar     *)
(* has length barLength and is floor(value * barLength / total) filled     *)
(* characters followed by empty characters only.                           *)
C12_BarIsFloorOfFraction ==
    (/\ last.op = "getProgressBar"
     /\ sess[last.s].value <= sess[last.s].total[1])
    => LET o == sess[last.s]
           filled == (o.value * o.barLength) \div o.total[1]
       IN /\ fault = "none"
          /\ Len(last.arg) = o.barLength
          /\ last.arg = Repeat(FullBlock, filled) \o Repeat(LightShade, o.barLength - filled)

(* position (from 0) of the filled character in the i-th frame of a        *)
(* forward sweep followed by a reverse sweep without the two end frames    *)
SweepPosition(i, barLength) == IF i <= barLength THEN i - 1 ELSE 2 * barLength - 1 - i

(* C13: for barLength >= 2 the frames built at construction are exactly    *)
(* 2 * barLength - 2 frames of length barLength, each with exactly one     *)
(* filled character, at positions 0, 1, ..., barLength - 1,                *)
(* barLength - 2, ..., 1; for barLength = 1 there is exactly one frame.    *)
C13_FramesSweep ==
    \A s \in DOMAIN sess :
        LET o == sess[s]
            b == o.barLength
        IN /\ Len(o.frames) = (IF b >= 2 THEN 2 * b - 2 ELSE 1)
           /\ \A i \in 1..Len(o.frames) :
                  /\ Len(o.frames[i]) = b
                  /\ \A j \in 1..b :
                         o.frames[i][j] = (IF j - 1 = SweepPosition(i, b)
                                           THEN o.fullCharacter ELSE o.emptyCharacter)

C13_Witness ==
    /\ Len(sess) = 1
    /\ sess[1].barLength = MaxWide
    /\ Len(sess[1].frames) = 2 * MaxWide - 2
    /\ sess[1].frames[MaxWide][MaxWide] = FullBlock
    /\ sess[1].frames[MaxWide + 1][MaxWide - 1] = FullBlock
    /\ sess[1].frames[2 * MaxWide - 2][2] = FullBlock

HasField(text, unit) == \E i \in 2..Len(text) : text[i] = unit

(* remaining time of session o at time t in milliseconds, as the fraction  *)
(* num / den; whole when den divides num                                   *)
RemainingNum(o, t) == (t - o.startTime) * (o.total[1] - o.value)
RemainingDen(o) == o.value

(* C14 as stated: for value >= 1 and a remaining time in whole             *)
(* milliseconds the ETA text has no hour field when the remaining time is  *)
(* below 3600 s, no minute field when it is below 60 s, and always a       *)
(* seconds field.                                                          *)
C14_FieldsFollowRemainingTime ==
    (/\ last.op = "calculateETA"
     /\ sess[last.s].value >= 1
     /\ RemainingNum(sess[last.s], now) % RemainingDen(sess[last.s]) = 0)
    => LET ms == RemainingNum(sess[last.s], now) \div RemainingDen(sess[last.s])
       IN /\ ms < 3600 * 1000 => ~HasField(last.arg, "h ")
          /\ ms < 60 * 1000 => ~HasField(last.arg, "m ")
          /\ HasField(last.arg, "s")

(* C14 amended: the thresholds apply to the remaining time rounded to the  *)
(* nearest whole second (halves up): no hour field when that is below      *)
(* 3600, no minute field when it is below 60, always a seconds field.      *)
C14_FieldsFollowRoundedSeconds ==
    (last.op = "calculateETA" /\ sess[last.s].value >= 1)
    => LET o == sess[last.s]
           seconds == (2 * RemainingNum(o, now) + 1000 * RemainingDen(o))
                          \div (2 * 1000 * RemainingDen(o))
       IN /\ seconds < 3600 => ~HasField(last.arg, "h ")
          /\ seconds < 60 => ~HasField(last.arg, "m ")
          /\ HasField(last.arg, "s")

C14_Witness ==
    /\ last.op = "calculateETA"
    /\ sess[last.s].value = 1
    /\ sess[last.s].total = Some(2)
    /\ now - sess[last.s].startTime = 59500
    /\ last.arg = <<"1", "m ", "0", "s">>

(* C15: no division by value is evaluated when value = 0: a tick then      *)
(* shows the placeholder text as the ETA segment, and stop() on a          *)
(* determinate session with value = 0 reports 0 as the average time per    *)
(* item.                                                                   *)
C15_ZeroValueIsGuarded ==
    /\ (/\ last.op = "tick"
        /\ ~sess[last.s].indeterminate
        /\ sess[last.s].showEta
        /\ sess[last.s].value = 0)
       => /\ fault = "none"
          /\ Contains(term.cur, <<" | ETA: ", "Calculating...", " ">>)
    /\ (/\ last.op = "stop"
        /\ ~sess[last.s].indeterminate
        /\ sess[last.s].value = 0)
       => /\ fault = "none"
          /\ sess[last.s].showAvgTimePerItem
                => Contains(LastLine, <<"s total", " | ", "0", ".", "0", "0", "s avg per item">>)

C15_Witness ==
    /\ last.op = "stop"
    /\ ~sess[last.s].indeterminate
    /\ sess[last.s].value = 0
    /\ sess[last.s].showAvgTimePerItem
    /\ now > sess[last.s].startTime
    /\ Contains(LastLine, <<"1", ".", "0", "s total", " | ", "0", ".", "0", "0", "s avg per item">>)

(* C16: once stop() has returned no tick of that session runs again, and   *)
(* no call on that session other than a later stop() or an intercepted     *)
(* log call writes to the terminal: the line stop() wrote stays the last   *)
(* output of the session.                                                  *)
C16_NoTickAfterStop ==
    [][\A s \in DOMAIN sess :
          Stopped(s) =>
              /\ ~(last'.op = "tick" /\ last'.s = s)
              /\ (last'.s = s /\ last'.op \notin {"stop", "wrapper"}) => term' = term]_vars

C16_Witness ==
    /\ last.op = "increment"
    /\ Stopped(last.s)
    /\ sess[last.s].timer = Some("cleared")
    /\ sess[last.s].frameIndex > 0
    /\ term.cur = <<>>
    /\ Contains(LastLine, <<"s total">>)

(* C17: stop() is final: from then on the session's active flag is false,  *)
(* a wrapper of the session called after stop() writes nothing to the      *)
(* terminal and increment() after stop() leaves value as it was.           *)
C17_StopIsTerminal ==
    [][\A s \in DOMAIN sess' :
          hist'[s].stops > 0 =>
              /\ ~sess'[s].isActive
              /\ (Stopped(s) /\ last'.s = s /\ last'.op = "wrapper") => term' = term
              /\ (Stopped(s) /\ last'.s = s /\ last'.op = "increment")
                    => sess'[s].value = sess[s].value]_vars

(* C18: the current display line and frameIndex change on a tick only:     *)
(* update, increment, stop and every intercepted log / warn / error call   *)
(* leave both as they were.                                                *)
C18_OnlyTickChangesRenderState ==
    [][last'.op \in {"update", "increment", "stop", "wrapper"} =>
          /\ sess'[last'.s].progressLine = sess[last'.s].progressLine
          /\ sess'[last'.s].frameIndex = sess[last'.s].frameIndex]_vars

(* C19: in both modes each tick advances frameIndex by exactly one modulo  *)
(* the number of frames, and in every state 0 <= frameIndex < number of    *)
(* frames.                                                                 *)
C19_TickAdvancesFrameIndex ==
    [][/\ \A s \in DOMAIN sess' :
             sess'[s].frameIndex >= 0 /\ sess'[s].frameIndex < Len(sess'[s].frames)
       /\ last'.op = "tick" =>
             sess'[last'.s].frameIndex
                 = (sess[last'.s].frameIndex + 1) % Len(sess[last'.s].frames)]_vars

(* C20: two sessions, the second constructed before the first is stopped:  *)
(* once both have been stopped, in either order, console.log, console.warn *)
(* and console.error are the references they were before the first         *)
(* session was constructed.                                                *)
C20_OverlappingSessionsRestore ==
    (/\ Len(sess) = 2
     /\ ~hist[2].alone
     /\ Stopped(1)
     /\ Stopped(2))
    => console = hist[1].pre

====
